---- MODULE Spec2Model ----
(***************************************************************************)
(* State-machine model of the LIBS analyzer controller                     *)
(* (src/libs_analyzer.py, class LIBSAnalyzer) driven by cooperatively      *)
(* scheduled callers (src/socketio_server.py runs every handler as an      *)
(* eventlet greenlet; a greenlet yields only inside sleep_func).           *)
(*                                                                         *)
(* One action of the model is one run of a greenlet from the point where   *)
(* it is resumed up to its next sleep (or its return).  Time is counted in *)
(* tenths of a second.                                                     *)
(***************************************************************************)
EXTENDS Integers, Sequences, FiniteSets, TLC

VARIABLES
    status,        \* self.status: "IDLE" or "RUNNING"
    sample_name,   \* self.sample_name: a sequence of characters
    buttons,       \* self.buttons: name -> [pos, found, img_path]
    time_out,      \* self.time_out, in tenths of a second
    now,           \* time.time(), tenths of a second since the controller was built
    cacheCount,    \* len(os.listdir(self.cache_folder_path))
    exportCount,   \* len(os.listdir(self.export_folder_path))
    pc,            \* per caller: where its greenlet stands
    op,            \* per caller: the method it called and the argument
    ret,           \* per caller: how the call ended ("none" while it runs)
    n,             \* per caller: local n, the baseline entry count
    cnt,           \* per caller: the entry count last read by the polling loop
    curr_t,        \* per caller: local curr_t
    step,          \* per caller: index of the next step of export's sequence
    inputs,        \* per caller: the clicks and keystrokes the call has injected
    read_dir,      \* per caller: the export subfolder analyze() listed
    listed,        \* per caller: what analyze() found there ("": not listed)
    last_ok_name,  \* history: sample_name of the most recent export that succeeded
    entered_at,    \* history: wall-clock second at which an export last entered RUNNING
    located,       \* history: the controls the locator has located at least once
    finds_ok,      \* history: a find_all_buttons run has gone through every control
    probe,         \* inputs and results of a function applied on its own
    given,         \* the class that was constructed and the arguments given to it
    reply,         \* per caller: what the server's handler returned to the network
    emitted,       \* the status name last broadcast by update_status
    beat           \* when update_status next wakes from its sleep (Unset: not started)

vars == <<status, sample_name, buttons, time_out, now, cacheCount,
          exportCount, pc, op, ret, n, cnt, curr_t, step, inputs, read_dir, listed,
          last_ok_name, entered_at, located, finds_ok, probe, given, reply,
          emitted, beat>>

----------------------------------------------------------------------------
(* Bounds of the model *)

NumProcs == 2      \* concurrent callers (greenlets)
MaxNow == 60       \* the clock stops advancing here (tenths of a second)
MaxCount == 1      \* largest entry count of a watched directory
MaxProbe == 2      \* seconds probed after each instant of ProbeBases
MaxSide == 22      \* largest height and width of a template image
MaxNowServer == 160  \* where the clock of a server stops advancing
MaxCallServer == 10  \* the last moment at which a server gets a request
MaxCallLive == 20  \* the last moment of a request where progress is checked
MaxVaried == 5     \* scales at which the score of a drawn capture varies
MaxScore == 2      \* largest correlation score of a drawn capture

Procs == 1..NumProcs
Counts == 0..MaxCount

----------------------------------------------------------------------------
(* The control registry, in the insertion order of self.buttons *)

ButtonNames ==
    <<"measure", "sample_name", "export", "separate_spectrum",
      "new_folder", "export_finish", "delete", "sync">>

Registered == {ButtonNames[i] : i \in 1..Len(ButtonNames)}

IndexOf(b) == CHOOSE i \in 1..Len(ButtonNames) : ButtonNames[i] = b

None == <<>>
Unset == 0 - 1

----------------------------------------------------------------------------
(* datetime.now(): the local wall clock, as calendar fields.  The argument *)
(* is a count of whole seconds since 2000-01-01 00:00:00.                  *)

IsLeap(y) == (y % 4 = 0 /\ y % 100 # 0) \/ y % 400 = 0

DaysInYear(y) == IF IsLeap(y) THEN 366 ELSE 365

DaysInMonth(y, m) ==
    IF m = 2 THEN (IF IsLeap(y) THEN 29 ELSE 28)
    ELSE IF m \in {4, 6, 9, 11} THEN 30 ELSE 31

RECURSIVE YearOf(_, _)
YearOf(y, d) == IF d < DaysInYear(y) THEN <<y, d>> ELSE YearOf(y + 1, d - DaysInYear(y))

RECURSIVE MonthOf(_, _, _)
MonthOf(y, m, d) ==
    IF d < DaysInMonth(y, m) THEN <<m, d + 1>> ELSE MonthOf(y, m + 1, d - DaysInMonth(y, m))

datetime_now(sec) ==
    LET yd == YearOf(2000, sec \div 86400)
        md == MonthOf(yd[1], 1, yd[2])
        rem == sec % 86400
    IN  [year |-> yd[1], month |-> md[1], day |-> md[2],
         hour |-> rem \div 3600, minute |-> (rem % 3600) \div 60, second |-> rem % 60]

(* The wall clock read when the controller was built: 2024-12-31 23:59:57.  *)
StartSec == 9132 * 86400 - 3

WallClock(t) == StartSec + (t \div 10)

(* Clock readings whose names are compared: a few seconds from each of     *)
(* 2024-12-31 23:59:57, 2024-02-28 23:59:58, 2025-09-09 09:09:08,          *)
(* 2011-01-11 01:11:10 and 2011-11-01 01:11:10, early and late in the      *)
(* second.                                                                 *)
ProbeBases ==
    {StartSec, 8824 * 86400 + 86398, 9383 * 86400 + 32948,
     4028 * 86400 + 4270, 4322 * 86400 + 4270}

ProbeReadings ==
    {[sec |-> b + k, tenth |-> f] : b \in ProbeBases, k \in 0..MaxProbe, f \in {0, 9}}

----------------------------------------------------------------------------
(* Python's string formatting of integers, character by character *)

Digit(d) == <<"0", "1", "2", "3", "4", "5", "6", "7", "8", "9">>[d + 1]

RECURSIVE Str(_)
Str(v) == IF v < 10 THEN <<Digit(v)>> ELSE Str(v \div 10) \o <<Digit(v % 10)>>

(* format spec 02: zero-padded to a minimum width of two *)
Pad2(v) == IF v < 10 THEN <<"0", Digit(v)>> ELSE Str(v)

(* A name whose fields are written without the 02 format spec *)
name_unpadded(dt) ==
    Str(dt.year) \o <<"_">> \o Str(dt.month) \o <<"_">> \o Str(dt.day) \o <<"_">>
    \o Str(dt.hour) \o <<"_">> \o Str(dt.minute) \o <<"_">> \o Str(dt.second)

(* LIBSAnalyzer._name_after_time, applied to the value of datetime.now() *)
_name_after_time(dt) ==
    Str(dt.year) \o <<"_">> \o Pad2(dt.month) \o <<"_">> \o Pad2(dt.day) \o <<"_">>
    \o Pad2(dt.hour) \o <<"_">> \o Pad2(dt.minute) \o <<"_">> \o Pad2(dt.second)

----------------------------------------------------------------------------
(* Constructor arguments *)

(* Default reference-image path of each control (LIBSAnalyzer.__init__) *)
DefaultImg ==
    [b \in Registered |->
        CASE b = "measure" -> "measure_button.png"
          [] b = "sample_name" -> "sample_name_input.png"
          [] b = "export" -> "export_button.png"
          [] b = "separate_spectrum" -> "separate_spectrum_button.png"
          [] b = "new_folder" -> "new_folder_button.png"
          [] b = "export_finish" -> "export_finish_button.png"
          [] b = "delete" -> "delete_button.png"
          [] b = "sync" -> "sync_button.png"]

(* The image files that exist and the control each one depicts.  Any other *)
(* path names no readable image.                                           *)
TemplateFiles == {DefaultImg[b] : b \in Registered}

Depicts(path) == CHOOSE b \in Registered : DefaultImg[b] = path

(* Configurations the controller is built with: every control given its   *)
(* own image, or one control given a path that names no image.            *)
BadControls == {"none", "delete"}

ImgPaths(bad) ==
    [b \in Registered |-> IF b = bad THEN "missing.png" ELSE DefaultImg[b]]

(* time_out values passed to the constructor, in tenths of a second *)
TimeOuts == {10}

(* LIBSAnalyzer.__init__: time_out: float = 15.0 *)
DefaultTimeOut == 150

(* A float where a path is expected, written as Python writes it (15.0) *)
float_repr(t) == ToString(t \div 10) \o "." \o ToString(t % 10)

(* Z300SocketIOServer.__init__: the positional arguments of                *)
(* super().__init__ after the two folder paths                             *)
super_args(a) ==
    <<a.img["measure"], a.img["sample_name"], a.img["export"],
      a.img["separate_spectrum"], a.img["new_folder"], a.img["export_finish"],
      float_repr(a.time_out)>>

(* Python binds positional arguments to the parameters in the order of the *)
(* signature: the image paths in the order of ButtonNames, then time_out;  *)
(* a parameter that gets no argument takes its default.                    *)
BindImg(args) ==
    [b \in Registered |->
        IF IndexOf(b) <= Len(args) THEN args[IndexOf(b)] ELSE DefaultImg[b]]

BindTimeOut(args) ==
    IF Len(args) > Len(ButtonNames) THEN args[Len(ButtonNames) + 1] ELSE DefaultTimeOut

(* The arguments a server is constructed with: an image path for each      *)
(* control but sync, and the operation timeout.                            *)
ServerTimeOuts == {10}

ServerArgs ==
    {[class |-> "Z300SocketIOServer",
      img |-> [b \in Registered \ {"sync"} |-> DefaultImg[b]],
      time_out |-> t] : t \in ServerTimeOuts}

(* LIBSAnalyzer.__init__: self.buttons *)
InitButtons(paths) ==
    [b \in Registered |-> [pos |-> None, found |-> FALSE, img_path |-> paths[b]]]

----------------------------------------------------------------------------
(* The visual locator.  The instrument's window shows the control that a   *)
(* template depicts centred at Layout(b).                                  *)

Layout(b) == <<100 * IndexOf(b), 40>>

(* LIBSAnalyzer.locate_button_multi_scale: cv2.imread of a path that holds *)
(* no image gives no template and the edge detection raises.               *)
locate_button_multi_scale(path) ==
    IF path \notin TemplateFiles
    THEN [exc |-> "cv2.error", pos |-> None]
    ELSE [exc |-> "none", pos |-> Layout(Depicts(path))]

(* A run that sets the found flag of a control before it locates it *)
RECURSIVE find_from_flag_first(_, _)
find_from_flag_first(bs, i) ==
    IF i > Len(ButtonNames) THEN [buttons |-> bs, exc |-> "none", located |-> i - 1]
    ELSE LET b == ButtonNames[i]
             r == locate_button_multi_scale(bs[b].img_path)
             flagged == [bs EXCEPT ![b] = [@ EXCEPT !.found = TRUE]]
         IN  IF r.exc # "none"
             THEN [buttons |-> flagged, exc |-> r.exc, located |-> i - 1]
             ELSE find_from_flag_first([flagged EXCEPT ![b] = [@ EXCEPT !.pos = r.pos]],
                                       i + 1)

(* LIBSAnalyzer.find_all_buttons from the i-th control on: the registry it *)
(* leaves, the exception it ends with and how many controls it located.    *)
RECURSIVE find_from(_, _)
find_from(bs, i) ==
    IF i > Len(ButtonNames) THEN [buttons |-> bs, exc |-> "none", located |-> i - 1]
    ELSE LET b == ButtonNames[i]
             r == locate_button_multi_scale(bs[b].img_path)
         IN  IF r.exc # "none"
             THEN [buttons |-> bs, exc |-> r.exc, located |-> i - 1]
             ELSE find_from([bs EXCEPT ![b] = [@ EXCEPT !.pos = r.pos, !.found = TRUE]],
                            i + 1)

find_all_buttons(bs) == find_from(bs, 1)

----------------------------------------------------------------------------
(* The multi-scale search of locate_button_multi_scale, on the shapes of   *)
(* the capture and of the template.  A shape is [h, w]; scales are in      *)
(* tenths.                                                                 *)

(* np.linspace(0.2, 2.0, 10)[::-1] *)
Scales == <<20, 18, 16, 14, 12, 10, 8, 6, 4, 2>>

(* imutils.resize(gray, width = int(gray.shape[1] * scale)) *)
resized(gray, scale) ==
    LET width == (gray.w * scale) \div 10
    IN  [h |-> (gray.h * width) \div gray.w, w |-> width]

(* The correlation scores of a capture that shows the control at its       *)
(* natural size: the score peaks at scale 1.0.  A capture carries, as      *)
(* val, the best score that matchTemplate gives at each scale of Scales.   *)
Peaked ==
    [i \in 1..Len(Scales) |->
        100 - (IF Scales[i] > 10 THEN Scales[i] - 10 ELSE 10 - Scales[i])]

(* cv2.minMaxLoc(cv2.matchTemplate(edged, template, cv2.TM_CCOEFF)): the   *)
(* best score of the capture at this scale, found with the top-left corner *)
(* one quarter into the resized capture.                                   *)
minMaxLoc(gray, scale) ==
    [max_val |-> gray.val[(22 - scale) \div 2],
     max_loc |-> <<(gray.w * scale) \div 40, (gray.h * scale) \div 40>>]

(* if found is None or max_val > found[0], with >= for > *)
is_new_max_or_equal(found, max_val) ==
    IF found = None THEN TRUE ELSE max_val >= found[1]

(* if found is None or max_val > found[0] *)
is_new_max(found, max_val) ==
    IF found = None THEN TRUE ELSE max_val > found[1]

(* The loop over the scales from the i-th on; found is the bookkeeping     *)
(* variable (None until a scale has been matched).                         *)
RECURSIVE scale_loop(_, _, _, _)
scale_loop(gray, template, i, found) ==
    IF i > Len(Scales) THEN found
    ELSE LET rs == resized(gray, Scales[i])
         IN  IF rs.h < template.h \/ rs.w < template.w
             THEN found
             ELSE LET m == minMaxLoc(gray, Scales[i])
                      better == is_new_max(found, m.max_val)
                  IN  scale_loop(gray, template, i + 1,
                                 IF better THEN <<m.max_val, m.max_loc, rs.w>>
                                 ELSE found)

(* The centre of the bounding box: r is gray.shape[1] / resized.shape[1],  *)
(* kept in found as the resized width; int() truncates.                    *)
box_centre(gray, template, found) ==
    LET max_loc == found[2]
        rw == found[3]
        start_x == (max_loc[1] * gray.w) \div rw
        start_y == (max_loc[2] * gray.w) \div rw
        end_x == ((max_loc[1] + template.w) * gray.w) \div rw
        end_y == ((max_loc[2] + template.h) * gray.w) \div rw
    IN  <<(start_x + end_x) \div 2, (start_y + end_y) \div 2>>

(* The search and the unpacking of found: (_, max_loc, r) = found raises   *)
(* TypeError when found is None.                                           *)
multi_scale(gray, template) ==
    LET found == scale_loop(gray, template, 1, None)
    IN  IF found = None THEN [exc |-> "TypeError", pos |-> None]
        ELSE [exc |-> "none", pos |-> box_centre(gray, template, found)]

----------------------------------------------------------------------------
(* Injected input events *)

Click(pos) == <<"click", pos>>
KeyPress(key) == <<"press", <<key>>>>
TypeWrite(text) == <<"typewrite", text>>

(* A press that clicks without asking whether the control was found *)
press_unchecked(bs, button_name) ==
    IF button_name \notin DOMAIN bs
    THEN [exc |-> "UnkonwnButtonNameError", events |-> <<>>]
    ELSE [exc |-> "none", events |-> <<Click(bs[button_name].pos)>>]

(* A press that reports an unknown name as a control that was not found *)
press_one_error(bs, button_name) ==
    IF button_name \notin DOMAIN bs \/ ~bs[button_name].found
    THEN [exc |-> "ButtonNotFoundError", events |-> <<>>]
    ELSE [exc |-> "none", events |-> <<Click(bs[button_name].pos)>>]

(* LIBSAnalyzer.press_a_button: the exception raised and the click made *)
press_a_button(bs, button_name) ==
    IF button_name \notin DOMAIN bs
    THEN [exc |-> "UnkonwnButtonNameError", events |-> <<>>]
    ELSE IF ~bs[button_name].found
    THEN [exc |-> "ButtonNotFoundError", events |-> <<>>]
    ELSE [exc |-> "none", events |-> <<Click(bs[button_name].pos)>>]

----------------------------------------------------------------------------
(* The status gate and the polling loop's tests *)

(* A gate that lets every call through *)
Busy_never(st) == FALSE

(* if self.status is not AnalyzerStatus.IDLE *)
Busy(st) == st # "IDLE"

(* A release of the gate that an exception skips *)
finally_status_on_return(exc) == IF exc = "none" THEN "IDLE" ELSE "RUNNING"

(* finally: self.status = AnalyzerStatus.IDLE *)
finally_status(exc) == "IDLE"

(* while len(os.listdir(...)) == n *)
Waiting(count, base) == count = base

(* A loop without the timeout test *)
TimedOut_never(elapsed, limit) == FALSE

(* A timeout test that fires as soon as the limit is reached *)
TimedOut_at_limit(elapsed, limit) == elapsed >= limit

(* if elapsed > self.time_out *)
TimedOut(elapsed, limit) == elapsed > limit

(* self.sleep_func(0.2) in the polling loops, in tenths of a second *)
PollInterval == 2

(* self.sio.sleep(0.5) in update_status, in tenths of a second *)
BeatInterval == 5

NoOp == [name |-> "none", arg |-> ""]
NoProbe == <<>>

(* What every construction leaves: no call in progress, nothing recorded *)
Fresh ==
    /\ status = "IDLE"
    /\ sample_name = <<>>
    /\ now = 0
    /\ pc = [p \in Procs |-> "idle"]
    /\ op = [p \in Procs |-> NoOp]
    /\ ret = [p \in Procs |-> "none"]
    /\ n = [p \in Procs |-> Unset]
    /\ cnt = [p \in Procs |-> Unset]
    /\ curr_t = [p \in Procs |-> Unset]
    /\ step = [p \in Procs |-> 0]
    /\ inputs = [p \in Procs |-> <<>>]
    /\ read_dir = [p \in Procs |-> None]
    /\ listed = [p \in Procs |-> ""]
    /\ last_ok_name = <<>>
    /\ entered_at = Unset
    /\ located = {}
    /\ finds_ok = FALSE
    /\ reply = [p \in Procs |-> None]
    /\ emitted = ""

(* LIBSAnalyzer(...) with keyword arguments *)
Built ==
    /\ Fresh
    /\ given \in {[class |-> "LIBSAnalyzer", img |-> ImgPaths(bad), time_out |-> t] :
                     bad \in BadControls, t \in TimeOuts}
    /\ buttons = InitButtons(given.img)
    /\ time_out = given.time_out
    /\ beat = Unset

(* Z300SocketIOServer(...) *)
ServerBuilt ==
    /\ Fresh
    /\ given \in ServerArgs
    /\ buttons = InitButtons(BindImg(super_args(given)))
    /\ time_out = BindTimeOut(super_args(given))
    /\ beat = BeatInterval

Init ==
    /\ Built
    /\ cacheCount \in Counts
    /\ exportCount \in Counts
    /\ probe = NoProbe

----------------------------------------------------------------------------
(* Pieces shared by the workflows *)

ctrl == <<sample_name, buttons, time_out>>
dirs == <<cacheCount, exportCount>>
frame == <<n, cnt, curr_t, step, inputs, read_dir, listed>>
finds == <<located, finds_ok>>
made == <<given, emitted, beat>>
past == <<last_ok_name, entered_at, finds, probe, given>>
hist == <<last_ok_name, entered_at, finds, probe, made>>

(* Greenlets are scheduled cooperatively: one that has reached the end of   *)
(* its call hands the result to its caller before any other greenlet runs. *)
Quiet == \A q \in Procs : pc[q] # "done"

(* Callers start a measure or an export on a whole second of the clock. *)
OnTheSecond == now % 10 = 0

LastCall == IF given.class = "Z300SocketIOServer" THEN MaxCallServer ELSE MaxNow

(* Caller p, who has no call in progress, makes one.  Calls are made up to *)
(* LastCall; a workflow in progress then runs on to the horizon.           *)
Call(p, name, arg) ==
    /\ Quiet
    /\ pc[p] = "idle"
    /\ now <= LastCall
    /\ op' = [op EXCEPT ![p] = [name |-> name, arg |-> arg]]

(* A rejection raised inside the try statement: the finally clause runs *)
Reject_in_try(p) ==
    /\ pc' = [pc EXCEPT ![p] = "done"]
    /\ ret' = [ret EXCEPT ![p] = "DeviceRunningError"]
    /\ status' = "IDLE"
    /\ UNCHANGED <<ctrl, now, dirs, frame, hist>>

(* raise DeviceRunningError: raised before the try statement is entered *)
Reject(p) ==
    /\ pc' = [pc EXCEPT ![p] = "done"]
    /\ ret' = [ret EXCEPT ![p] = "DeviceRunningError"]
    /\ UNCHANGED <<status, ctrl, now, dirs, frame, hist>>

(* The call ends with exception exc ("none": it returns) through the       *)
(* finally clause.                                                         *)
Leave(p, exc) ==
    /\ pc' = [pc EXCEPT ![p] = "done"]
    /\ ret' = [ret EXCEPT ![p] = exc]
    /\ status' = finally_status(exc)

(* The clock stops advancing at the horizon of the model *)
Horizon == IF given.class = "Z300SocketIOServer" THEN MaxNowServer ELSE MaxNow

(* The first wake-up of update_status at or after t *)
NextBeat(t) ==
    IF beat >= t THEN beat
    ELSE beat + BeatInterval * (((t - beat) + BeatInterval - 1) \div BeatInterval)

(* A sleep that does not yield: update_status is not run while it lasts *)
Slept_blocking(d) ==
    /\ now' = now + d
    /\ now' <= Horizon
    /\ UNCHANGED <<emitted, beat>>

(* self.sleep_func(d) returns: the clock has advanced by d.  time.sleep    *)
(* just waits.  self.sio.sleep yields to the hub, which runs update_status *)
(* at each of its wake-ups during the sleep: it broadcasts the status of   *)
(* that time and sleeps again.  The sleeper is not resumed while           *)
(* update_status is due; when both wake at the same time, the hub runs     *)
(* them in either order.                                                   *)
Slept(d) ==
    /\ now' = now + d
    /\ now' <= Horizon
    /\ IF beat = Unset
       THEN UNCHANGED <<emitted, beat>>
       ELSE /\ beat > now
            /\ \/ /\ emitted' = IF beat < now' THEN status ELSE emitted
                  /\ beat' = NextBeat(now')
               \/ /\ NextBeat(now') = now'
                  /\ emitted' = status
                  /\ beat' = now' + BeatInterval

(* One turn of the polling loop after its sleep: the elapsed-time test,    *)
(* then the loop condition on the watched directory's count.               *)
Poll(p, count) ==
    /\ Slept(PollInterval)
    /\ IF TimedOut(now' - curr_t[p], time_out)
       THEN Leave(p, "TimeOutError") /\ UNCHANGED cnt
       ELSE /\ cnt' = [cnt EXCEPT ![p] = count]
            /\ IF Waiting(count, n[p])
               THEN UNCHANGED <<pc, ret, status>>
               ELSE Leave(p, "none")

----------------------------------------------------------------------------
(* The handlers of Z300SocketIOServer: what each returns to the network,   *)
(* given self.status at its entry and the exception the workflow it called *)
(* ended with ("none": the workflow returned).                             *)

BusyMessage == "The analyzer is currently running. Please wait until it is done."

(* str(e) *)
str(exc) ==
    CASE exc = "TimeOutError" -> "The operation takes too long."
      [] exc = "ButtonNotFoundError" -> "The button {button_name} was not found."
      [] exc = "UnkonwnButtonNameError" -> "The button name {button_name} is unknown."
      [] exc = "DeviceRunningError" ->
            "The analyzer is currently running. Please wait until it is done. The requested operation cannot be performed."
      [] exc = "FileNotFoundError" -> "[Errno 2] No such file or directory"
      [] exc = "IndexError" -> "index 0 is out of bounds for axis 0 with size 0"
      [] OTHER -> exc

(* A handler that answers success whatever the workflow raised *)
on_measure_blind(st, exc) ==
    IF st = "RUNNING" THEN <<BusyMessage>> ELSE <<"success">>

on_measure(st, exc) ==
    IF st = "RUNNING" THEN <<BusyMessage>>
    ELSE IF exc # "none" THEN <<str(exc)>> ELSE <<"success">>

on_export(st, exc) ==
    IF st = "RUNNING" THEN <<BusyMessage>>
    ELSE IF exc # "none" THEN <<str(exc)>> ELSE <<"success">>

on_analyze(st, exc) ==
    IF st = "RUNNING" THEN <<BusyMessage>>
    ELSE IF exc # "none" THEN <<str(exc), "not_found">> ELSE <<"success", "res">>

(* on_find_buttons has no try statement: an exception of find_all_buttons  *)
(* leaves the handler and nothing is returned.                             *)
on_find_buttons(exc, bs) ==
    IF exc # "none" THEN None
    ELSE <<[i \in 1..Len(ButtonNames) |-> bs[ButtonNames[i]].pos]>>

(* What caller p's handler returns when its greenlet reaches the end of    *)
(* the call; a direct call has no handler.  A handler that found status    *)
(* RUNNING is recorded in op by its own name, one that went on to call the *)
(* workflow by the workflow's name with the handler as argument.           *)
Replied(p) ==
    reply' = [reply EXCEPT ![p] =
        IF pc'[p] # "done" THEN None
        ELSE CASE op'[p].name = "on_measure" -> on_measure("RUNNING", ret'[p])
               [] op'[p].name = "on_export" -> on_export("RUNNING", ret'[p])
               [] op'[p].name = "on_analyze" -> on_analyze("RUNNING", ret'[p])
               [] op'[p].arg = "on_measure" -> on_measure("IDLE", ret'[p])
               [] op'[p].arg = "on_export" -> on_export("IDLE", ret'[p])
               [] op'[p].arg = "on_analyze" -> on_analyze("IDLE", ret'[p])
               [] op'[p].arg = "on_find_buttons" -> on_find_buttons(ret'[p], buttons')
               [] OTHER -> None]

(* return 'The analyzer is currently running. ...': the handler ends       *)
(* without calling the workflow.                                           *)
Answer(p) ==
    /\ pc' = [pc EXCEPT ![p] = "done"]
    /\ UNCHANGED <<status, ctrl, now, dirs, ret, frame, hist>>

----------------------------------------------------------------------------
(* LIBSAnalyzer.measure *)

(* A measure that goes to its first sleep without pressing a key *)
measure_no_key(p) ==
    IF Busy(status)
    THEN Reject(p)
    ELSE /\ status' = "RUNNING"
         /\ inputs' = [inputs EXCEPT ![p] = <<>>]
         /\ pc' = [pc EXCEPT ![p] = "measure_sleep"]
         /\ UNCHANGED <<ctrl, now, dirs, ret, n, cnt, curr_t, step, read_dir, listed, hist>>

(* From the status check to the first sleep *)
measure(p) ==
    IF Busy(status)
    THEN Reject(p)
    ELSE /\ status' = "RUNNING"
         /\ inputs' = [inputs EXCEPT ![p] = <<KeyPress("enter")>>]
         /\ pc' = [pc EXCEPT ![p] = "measure_sleep"]
         /\ UNCHANGED <<ctrl, now, dirs, ret, n, cnt, curr_t, step, read_dir, listed, hist>>

MeasureCall(p) ==
    /\ Call(p, "measure", "")
    /\ OnTheSecond
    /\ measure(p)
    /\ Replied(p)

(* Z300SocketIOServer.on_measure *)
OnMeasure(p) ==
    /\ OnTheSecond
    /\ IF status = "RUNNING"
       THEN Call(p, "on_measure", "") /\ Answer(p)
       ELSE Call(p, "measure", "on_measure") /\ measure(p)
    /\ Replied(p)

(* A measure that, when the press fails, sleeps and presses again *)
MeasureClick_retry(p) ==
    /\ Quiet
    /\ pc[p] = "measure_sleep"
    /\ Slept(5)
    /\ n' = [n EXCEPT ![p] = cacheCount]
    /\ LET r == press_a_button(buttons, "measure")
       IN  IF r.exc # "none"
           THEN UNCHANGED <<pc, ret, status, inputs, curr_t, cnt>>
           ELSE /\ inputs' = [inputs EXCEPT ![p] = @ \o r.events]
                /\ curr_t' = [curr_t EXCEPT ![p] = now']
                /\ cnt' = [cnt EXCEPT ![p] = cacheCount]
                /\ IF Waiting(cacheCount, n'[p])
                   THEN pc' = [pc EXCEPT ![p] = "measure_poll"] /\ UNCHANGED <<ret, status>>
                   ELSE Leave(p, "none")
    /\ UNCHANGED <<ctrl, dirs, op, step, read_dir, listed, past>>
    /\ Replied(p)

MeasureClick(p) ==
    /\ Quiet
    /\ pc[p] = "measure_sleep"
    /\ Slept(5)
    /\ n' = [n EXCEPT ![p] = cacheCount]
    /\ LET r == press_a_button(buttons, "measure")
       IN  IF r.exc # "none"
           THEN Leave(p, r.exc) /\ UNCHANGED <<inputs, curr_t, cnt>>
           ELSE /\ inputs' = [inputs EXCEPT ![p] = @ \o r.events]
                /\ curr_t' = [curr_t EXCEPT ![p] = now']
                /\ cnt' = [cnt EXCEPT ![p] = cacheCount]
                /\ IF Waiting(cacheCount, n'[p])
                   THEN pc' = [pc EXCEPT ![p] = "measure_poll"] /\ UNCHANGED <<ret, status>>
                   ELSE Leave(p, "none")
    /\ UNCHANGED <<ctrl, dirs, op, step, read_dir, listed, past>>
    /\ Replied(p)

MeasurePoll(p) ==
    /\ Quiet
    /\ pc[p] = "measure_poll"
    /\ Poll(p, cacheCount)
    /\ UNCHANGED <<ctrl, dirs, op, n, curr_t, step, inputs, read_dir, listed, past>>
    /\ Replied(p)

----------------------------------------------------------------------------
(* LIBSAnalyzer.export *)

(* A sequence that presses sync before delete *)
ExportSteps_sync_first ==
    << [act |-> "click", arg |-> "sample_name", sleep |-> 1],
       [act |-> "typewrite", arg |-> "self.sample_name", sleep |-> 1],
       [act |-> "click", arg |-> "export", sleep |-> 10],
       [act |-> "typewrite", arg |-> "self.export_folder_path", sleep |-> 1],
       [act |-> "press", arg |-> "enter", sleep |-> 10],
       [act |-> "click", arg |-> "separate_spectrum", sleep |-> 1],
       [act |-> "click", arg |-> "new_folder", sleep |-> 1],
       [act |-> "click", arg |-> "export_finish", sleep |-> 5],
       [act |-> "click", arg |-> "sync", sleep |-> 1],
       [act |-> "press", arg |-> "enter", sleep |-> 5],
       [act |-> "click", arg |-> "delete", sleep |-> 5],
       [act |-> "press", arg |-> "enter", sleep |-> 0] >>

(* The interactions of the try block in order, each with the sleep that    *)
(* follows it (tenths of a second).                                        *)
ExportSteps ==
    << [act |-> "click", arg |-> "sample_name", sleep |-> 1],
       [act |-> "typewrite", arg |-> "self.sample_name", sleep |-> 1],
       [act |-> "click", arg |-> "export", sleep |-> 10],
       [act |-> "typewrite", arg |-> "self.export_folder_path", sleep |-> 1],
       [act |-> "press", arg |-> "enter", sleep |-> 10],
       [act |-> "click", arg |-> "separate_spectrum", sleep |-> 1],
       [act |-> "click", arg |-> "new_folder", sleep |-> 1],
       [act |-> "click", arg |-> "export_finish", sleep |-> 5],
       [act |-> "click", arg |-> "delete", sleep |-> 1],
       [act |-> "press", arg |-> "enter", sleep |-> 5],
       [act |-> "click", arg |-> "sync", sleep |-> 5],
       [act |-> "press", arg |-> "enter", sleep |-> 0] >>

(* An interaction that swallows the exception of a failed press *)
Interact_swallow(s, bs, name) ==
    CASE s.act = "click" -> [exc |-> "none", events |-> press_a_button(bs, s.arg).events]
      [] s.act = "press" -> [exc |-> "none", events |-> <<KeyPress(s.arg)>>]
      [] s.act = "typewrite" ->
            [exc |-> "none",
             events |-> <<TypeWrite(IF s.arg = "self.sample_name" THEN name ELSE <<s.arg>>)>>]

(* What step s injects, or the exception its press raises *)
Interact(s, bs, name) ==
    CASE s.act = "click" -> press_a_button(bs, s.arg)
      [] s.act = "press" -> [exc |-> "none", events |-> <<KeyPress(s.arg)>>]
      [] s.act = "typewrite" ->
            [exc |-> "none",
             events |-> <<TypeWrite(IF s.arg = "self.sample_name" THEN name ELSE <<s.arg>>)>>]

(* Step k of the sequence at time t, in a call whose baseline is base and  *)
(* which has injected prev so far; st is self.status while the call runs.  *)
ExportRun(p, k, t, base, prev, st, name) ==
    LET r == Interact(ExportSteps[k], buttons, name)
    IN  /\ step' = [step EXCEPT ![p] = k]
        /\ IF r.exc # "none"
           THEN /\ Leave(p, r.exc)
                /\ inputs' = [inputs EXCEPT ![p] = prev]
                /\ UNCHANGED <<curr_t, cnt, last_ok_name>>
           ELSE /\ inputs' = [inputs EXCEPT ![p] = prev \o r.events]
                /\ IF k < Len(ExportSteps)
                   THEN /\ pc' = [pc EXCEPT ![p] = "export_sleep"]
                        /\ status' = st
                        /\ UNCHANGED <<ret, curr_t, cnt, last_ok_name>>
                   ELSE /\ curr_t' = [curr_t EXCEPT ![p] = t]
                        /\ cnt' = [cnt EXCEPT ![p] = exportCount]
                        /\ IF Waiting(exportCount, base)
                           THEN /\ pc' = [pc EXCEPT ![p] = "export_poll"]
                                /\ status' = st
                                /\ UNCHANGED <<ret, last_ok_name>>
                           ELSE Leave(p, "none") /\ last_ok_name' = name

(* An export that takes its sample name before the status check *)
export_names_first(p) ==
    IF Busy(status)
    THEN /\ pc' = [pc EXCEPT ![p] = "done"]
         /\ ret' = [ret EXCEPT ![p] = "DeviceRunningError"]
         /\ sample_name' = _name_after_time(datetime_now(WallClock(now)))
         /\ UNCHANGED <<status, buttons, time_out, now, dirs, frame, hist>>
    ELSE /\ sample_name' = _name_after_time(datetime_now(WallClock(now)))
         /\ entered_at' = WallClock(now)
         /\ n' = [n EXCEPT ![p] = exportCount]
         /\ ExportRun(p, 1, now, exportCount, <<>>, "RUNNING", sample_name')
         /\ UNCHANGED <<buttons, time_out, now, dirs, read_dir, listed, finds, probe, made>>

(* From the status check to the first sleep *)
export(p) ==
    IF Busy(status)
    THEN Reject(p)
    ELSE /\ sample_name' = _name_after_time(datetime_now(WallClock(now)))
         /\ entered_at' = WallClock(now)
         /\ n' = [n EXCEPT ![p] = exportCount]
         /\ ExportRun(p, 1, now, exportCount, <<>>, "RUNNING", sample_name')
         /\ UNCHANGED <<buttons, time_out, now, dirs, read_dir, listed, finds, probe, made>>

ExportCall(p) ==
    /\ Call(p, "export", "")
    /\ OnTheSecond
    /\ export(p)
    /\ Replied(p)

(* Z300SocketIOServer.on_export *)
OnExport(p) ==
    /\ OnTheSecond
    /\ IF status = "RUNNING"
       THEN Call(p, "on_export", "") /\ Answer(p)
       ELSE Call(p, "export", "on_export") /\ export(p)
    /\ Replied(p)

ExportStep(p) ==
    /\ Quiet
    /\ pc[p] = "export_sleep"
    /\ Slept(ExportSteps[step[p]].sleep)
    /\ ExportRun(p, step[p] + 1, now', n[p], inputs[p], status, sample_name)
    /\ UNCHANGED <<ctrl, dirs, op, n, read_dir, listed, entered_at, finds, probe, given>>
    /\ Replied(p)

ExportPoll(p) ==
    /\ Quiet
    /\ pc[p] = "export_poll"
    /\ Poll(p, exportCount)
    /\ last_ok_name' = IF pc'[p] = "done" /\ ret'[p] = "none" THEN sample_name
                       ELSE last_ok_name
    /\ UNCHANGED <<ctrl, dirs, op, n, curr_t, step, inputs, read_dir, listed, entered_at,
                   finds, probe, given>>
    /\ Replied(p)

----------------------------------------------------------------------------
(* LIBSAnalyzer.analyze.  It never sleeps, so it runs in one piece.        *)

(* What os.listdir of the export subfolder and the spectrum file hold:     *)
(* the subfolder does not exist; it holds no file ending in 1.csv; the     *)
(* file's wavelengths do not reach the configured range; or all is there.  *)
Listings == {"no_folder", "no_match", "out_of_range", "spectrum"}

(* The exception the try block of analyze ends with *)
analyze_exc(listing) ==
    CASE listing = "no_folder" -> "FileNotFoundError"
      [] listing = "no_match" -> "FileNotFoundError"
      [] listing = "out_of_range" -> "IndexError"
      [] listing = "spectrum" -> "none"

(* A listing of the export folder itself *)
analyze_dir_root(name) == <<"self.export_folder_path", "/">>

(* self.export_folder_path + '/' + self.sample_name *)
analyze_dir(name) == <<"self.export_folder_path", "/">> \o name

analyze(p) ==
    IF Busy(status)
    THEN Reject(p)
    ELSE /\ \E listing \in Listings :
                /\ Leave(p, analyze_exc(listing))
                /\ listed' = [listed EXCEPT ![p] = listing]
         /\ read_dir' = [read_dir EXCEPT ![p] = analyze_dir(sample_name)]
         /\ UNCHANGED <<ctrl, now, dirs, n, cnt, curr_t, step, inputs, hist>>

Analyze(p) ==
    /\ Call(p, "analyze", "")
    /\ analyze(p)
    /\ Replied(p)

(* Z300SocketIOServer.on_analyze *)
OnAnalyze(p) ==
    /\ IF status = "RUNNING"
       THEN Call(p, "on_analyze", "") /\ Answer(p)
       ELSE Call(p, "analyze", "on_analyze") /\ analyze(p)
    /\ Replied(p)

----------------------------------------------------------------------------
(* Direct calls of press_a_button and find_all_buttons.  Neither looks at  *)
(* self.status, and neither sleeps.  The server registers a handler for    *)
(* find_all_buttons (on_find_buttons) and none for press_a_button, which   *)
(* is called by the program that owns the controller, between workflows.   *)

PressNames == Registered \cup {"start"}

(* A press that marks the control it clicked as no longer found *)
PressCall_unfinds(p) ==
    \E name \in PressNames :
        /\ Call(p, "press_a_button", name)
        /\ \A q \in Procs : pc[q] = "idle"
        /\ LET r == press_a_button(buttons, name)
           IN  /\ ret' = [ret EXCEPT ![p] = r.exc]
               /\ inputs' = [inputs EXCEPT ![p] = r.events]
               /\ buttons' = IF r.exc = "none"
                             THEN [buttons EXCEPT ![name].found = FALSE]
                             ELSE buttons
        /\ pc' = [pc EXCEPT ![p] = "done"]
        /\ UNCHANGED <<status, sample_name, time_out, now, dirs, n, cnt, curr_t, step,
                       read_dir, listed, hist>>
        /\ Replied(p)

PressCall(p) ==
    \E name \in PressNames :
        /\ Call(p, "press_a_button", name)
        /\ \A q \in Procs : pc[q] = "idle"
        /\ LET r == press_a_button(buttons, name)
           IN  /\ ret' = [ret EXCEPT ![p] = r.exc]
               /\ inputs' = [inputs EXCEPT ![p] = r.events]
        /\ pc' = [pc EXCEPT ![p] = "done"]
        /\ UNCHANGED <<status, ctrl, now, dirs, n, cnt, curr_t, step, read_dir, listed, hist>>
        /\ Replied(p)

(* A run of find_all_buttons that ends by setting status to IDLE *)
FindRun_sets_idle(p) ==
    /\ LET r == find_all_buttons(buttons)
       IN  /\ buttons' = r.buttons
           /\ ret' = [ret EXCEPT ![p] = r.exc]
           /\ located' = located \cup {ButtonNames[i] : i \in 1..r.located}
           /\ finds_ok' = (finds_ok \/ r.exc = "none")
    /\ pc' = [pc EXCEPT ![p] = "done"]
    /\ status' = "IDLE"
    /\ UNCHANGED <<sample_name, time_out, now, dirs, frame, last_ok_name,
                   entered_at, probe, made>>

(* One run of find_all_buttons by caller p *)
FindRun(p) ==
    /\ LET r == find_all_buttons(buttons)
       IN  /\ buttons' = r.buttons
           /\ ret' = [ret EXCEPT ![p] = r.exc]
           /\ located' = located \cup {ButtonNames[i] : i \in 1..r.located}
           /\ finds_ok' = (finds_ok \/ r.exc = "none")
    /\ pc' = [pc EXCEPT ![p] = "done"]
    /\ UNCHANGED <<status, sample_name, time_out, now, dirs, frame, last_ok_name,
                   entered_at, probe, made>>

FindAllButtons(p) ==
    /\ Call(p, "find_all_buttons", "")
    /\ FindRun(p)
    /\ Replied(p)

(* Z300SocketIOServer.on_find_buttons *)
OnFindButtons(p) ==
    /\ Call(p, "find_all_buttons", "on_find_buttons")
    /\ FindRun(p)
    /\ Replied(p)

(* Z300SocketIOServer.update_status: the background task wakes from its   *)
(* sleep, broadcasts self.status.name and sleeps for half a second.        *)
UpdateStatus ==
    /\ beat = now
    /\ emitted' = status
    /\ beat' = now + BeatInterval
    /\ UNCHANGED <<status, ctrl, now, dirs, pc, op, ret, frame, last_ok_name,
                   entered_at, finds, probe, given, reply>>

(* The caller takes the result; the call's frame is gone. *)
Return(p) ==
    /\ pc[p] = "done"
    /\ pc' = [pc EXCEPT ![p] = "idle"]
    /\ op' = [op EXCEPT ![p] = NoOp]
    /\ ret' = [ret EXCEPT ![p] = "none"]
    /\ n' = [n EXCEPT ![p] = Unset]
    /\ cnt' = [cnt EXCEPT ![p] = Unset]
    /\ curr_t' = [curr_t EXCEPT ![p] = Unset]
    /\ step' = [step EXCEPT ![p] = 0]
    /\ inputs' = [inputs EXCEPT ![p] = <<>>]
    /\ read_dir' = [read_dir EXCEPT ![p] = None]
    /\ listed' = [listed EXCEPT ![p] = ""]
    /\ reply' = [reply EXCEPT ![p] = None]
    /\ UNCHANGED <<status, ctrl, now, dirs, hist>>

----------------------------------------------------------------------------
(* The instrument and the file system: entries appear in and vanish from   *)
(* the watched directories at any time.                                    *)

CacheChange ==
    /\ \E c \in Counts \ {cacheCount} : cacheCount' = c
    /\ UNCHANGED <<status, ctrl, now, exportCount, pc, op, ret, frame, hist, reply>>

ExportDirChange ==
    /\ \E c \in Counts \ {exportCount} : exportCount' = c
    /\ UNCHANGED <<status, ctrl, now, cacheCount, pc, op, ret, frame, hist, reply>>

(* Nothing is in progress and nobody calls until the next whole second. *)
IdleWait ==
    /\ \A q \in Procs : pc[q] = "idle"
    /\ Slept(((now \div 10) + 1) * 10 - now)
    /\ UNCHANGED <<status, ctrl, dirs, pc, op, ret, frame, past, reply>>

----------------------------------------------------------------------------

Next ==
    \/ \E p \in Procs : MeasureCall(p)
    \/ \E p \in Procs : MeasureClick(p)
    \/ \E p \in Procs : MeasurePoll(p)
    \/ \E p \in Procs : ExportCall(p)
    \/ \E p \in Procs : ExportStep(p)
    \/ \E p \in Procs : ExportPoll(p)
    \/ \E p \in Procs : Analyze(p)
    \/ \E p \in Procs : PressCall(p)
    \/ \E p \in Procs : FindAllButtons(p)
    \/ \E p \in Procs : Return(p)
    \/ CacheChange
    \/ ExportDirChange
    \/ IdleWait

Spec == Init /\ [][Next]_vars

----------------------------------------------------------------------------
(* Progress.  The hub resumes a greenlet whose sleep is over however often *)
(* other greenlets run in between, and a call that has ended returns to    *)
(* its caller.  A workflow is started only when the time it can take at    *)
(* most, its sleeps and the polls up to the timeout, ends before the       *)
(* horizon, where the clock of the model stops; requests arrive up to     *)
(* MaxCallLive.                                                            *)

RECURSIVE SleepsFrom(_)
SleepsFrom(k) ==
    IF k > Len(ExportSteps) THEN 0 ELSE ExportSteps[k].sleep + SleepsFrom(k + 1)

(* The time from the start of polling to the first poll past time_out *)
PollBudget == ((time_out \div PollInterval) + 1) * PollInterval

Budget(name) ==
    CASE name = "measure" -> 5 + PollBudget
      [] name = "export" -> SleepsFrom(1) + PollBudget
      [] OTHER -> 0

InTime ==
    \A p \in Procs :
        /\ (pc[p] = "idle" /\ pc'[p] # "idle") => now <= MaxCallLive
        /\ (pc[p] = "idle" /\ pc'[p] \notin {"idle", "done"})
               => now + Budget(op'[p].name) <= Horizon

NextLive == Next /\ InTime

(* The greenlet inside a workflow body, if any, takes its next step *)
Resume ==
    \E p \in Procs :
        MeasureClick(p) \/ MeasurePoll(p) \/ ExportStep(p) \/ ExportPoll(p)

Handback == \E p \in Procs : Return(p)

Fairness == SF_vars(Resume) /\ WF_vars(Handback)

SpecLive == Init /\ [][NextLive]_vars /\ Fairness

----------------------------------------------------------------------------
(* The server: a Z300SocketIOServer is constructed, callers reach it       *)
(* through its handlers and the status broadcast runs in the background.   *)
(* Its export never gets to the polling loop: the delete control has no    *)
(* image path (see ServerBuilt) and is never found.                        *)

InitServer ==
    /\ ServerBuilt
    /\ cacheCount \in Counts
    /\ exportCount \in Counts
    /\ probe = NoProbe

NextServer ==
    \/ \E p \in Procs : OnMeasure(p)
    \/ \E p \in Procs : MeasureClick(p)
    \/ \E p \in Procs : MeasurePoll(p)
    \/ \E p \in Procs : OnExport(p)
    \/ \E p \in Procs : ExportStep(p)
    \/ \E p \in Procs : OnAnalyze(p)
    \/ \E p \in Procs : OnFindButtons(p)
    \/ \E p \in Procs : PressCall(p)
    \/ \E p \in Procs : Return(p)
    \/ UpdateStatus
    \/ CacheChange
    \/ ExportDirChange
    \/ IdleWait

SpecServer == InitServer /\ [][NextServer]_vars

(* The hub runs update_status when it stays due *)
SpecServerLive == InitServer /\ [][NextServer]_vars /\ WF_vars(UpdateStatus)

----------------------------------------------------------------------------
(* _name_after_time on its own: two clock readings are drawn and the       *)
(* function is applied to each.                                            *)

InitName ==
    /\ Built
    /\ cacheCount = 0
    /\ exportCount = 0
    /\ probe \in {[readings |-> <<a, b>>, names |-> <<>>] : a, b \in ProbeReadings}

NameProbe ==
    /\ probe.names = <<>>
    /\ probe' = [probe EXCEPT !.names =
                     <<_name_after_time(datetime_now(probe.readings[1].sec)),
                       _name_after_time(datetime_now(probe.readings[2].sec))>>]
    /\ UNCHANGED <<status, ctrl, now, dirs, pc, op, ret, frame, last_ok_name,
                   entered_at, finds, made, reply>>

NextName == NameProbe

SpecName == InitName /\ [][NextName]_vars

----------------------------------------------------------------------------
(* The multi-scale search on its own: the shapes of a capture and of a     *)
(* template are drawn and the search is applied to them.                   *)

GrayShapes == {[h |-> 6, w |-> 10, val |-> Peaked],
               [h |-> 10, w |-> 10, val |-> Peaked]}

TemplateShapes == {[h |-> a, w |-> b] : a, b \in 1..MaxSide}

InitLocate ==
    /\ Built
    /\ cacheCount = 0
    /\ exportCount = 0
    /\ probe \in {[gray |-> g, template |-> t, result |-> None] :
                     g \in GrayShapes, t \in TemplateShapes}

LocateProbe ==
    /\ probe.result = None
    /\ probe' = [probe EXCEPT !.result = multi_scale(probe.gray, probe.template)]
    /\ UNCHANGED <<status, ctrl, now, dirs, pc, op, ret, frame, last_ok_name,
                   entered_at, finds, made, reply>>

NextLocate == LocateProbe

SpecLocate == InitLocate /\ [][NextLocate]_vars

----------------------------------------------------------------------------
(* The bookkeeping of the search on its own: a capture is drawn with any   *)
(* scores at its first MaxVaried scales, a square template is drawn, and   *)
(* the loop over the scales is applied to them.                            *)

ScoreProfiles ==
    {[i \in 1..Len(Scales) |-> IF i <= MaxVaried THEN f[i] ELSE 0] :
        f \in [1..MaxVaried -> 0..MaxScore]}

InitSelect ==
    /\ Built
    /\ cacheCount = 0
    /\ exportCount = 0
    /\ probe \in {[gray |-> [h |-> 10, w |-> 10, val |-> v],
                    template |-> [h |-> a, w |-> a],
                    found |-> None, result |-> None] :
                     v \in ScoreProfiles, a \in 1..MaxSide}

SelectProbe ==
    /\ probe.result = None
    /\ probe' = [probe EXCEPT
                    !.found = scale_loop(probe.gray, probe.template, 1, None),
                    !.result = multi_scale(probe.gray, probe.template)]
    /\ UNCHANGED <<status, ctrl, now, dirs, pc, op, ret, frame, last_ok_name,
                   entered_at, finds, made, reply>>

NextSelect == SelectProbe

SpecSelect == InitSelect /\ [][NextSelect]_vars

----------------------------------------------------------------------------
(* Properties *)

Workflows == {"measure", "export", "analyze"}

(* The caller's greenlet is inside a workflow body, at one of its sleeps *)
InBody(p) == pc[p] \in {"measure_sleep", "measure_poll", "export_sleep", "export_poll"}

(* The caller's workflow passed the IDLE check and has just left its body *)
LeftBody(p) ==
    pc[p] = "done" /\ op[p].name \in Workflows /\ ret[p] # "DeviceRunningError"

(* The caller's workflow call was turned away at the IDLE check *)
TurnedAway(p) ==
    pc[p] = "done" /\ op[p].name \in Workflows /\ ret[p] = "DeviceRunningError"

(* C1: at most one workflow is between its entry (status set to RUNNING)   *)
(* and its exit at any time; no second workflow passes the IDLE check      *)
(* while another one is inside its body.                                   *)
C1_SingleFlight ==
    /\ Cardinality({p \in Procs : InBody(p) \/ LeftBody(p)}) <= 1
    /\ (\E p \in Procs : InBody(p)) => status = "RUNNING"

(* C1 witness: a measure call was turned away while an export is inside    *)
(* its body.                                                               *)
C1_Witness ==
    \E p, q \in Procs :
        /\ InBody(p) /\ op[p].name = "export"
        /\ TurnedAway(q) /\ op[q].name = "measure"

(* C2: a workflow call made while status is RUNNING ends in the same step  *)
(* with DeviceRunningError, without the clock advancing, and status is     *)
(* still RUNNING after it.                                                 *)
C2_BusyRejected ==
    [][\A p \in Procs :
         (status = "RUNNING" /\ pc[p] = "idle" /\ pc'[p] # "idle"
            /\ op'[p].name \in Workflows)
         => (pc'[p] = "done" /\ ret'[p] = "DeviceRunningError"
               /\ status' = "RUNNING" /\ now' = now)]_vars

(* C2 witness: an analyze call was turned away while a measure is polling  *)
(* and status is RUNNING.                                                  *)
C2_Witness ==
    \E p, q \in Procs :
        /\ pc[p] = "measure_poll" /\ status = "RUNNING"
        /\ TurnedAway(q) /\ op[q].name = "analyze"

(* C3: at the moment a workflow that entered RUNNING returns or raises,    *)
(* status is IDLE, whatever the exit path.                                 *)
C3_IdleAtExit == \A p \in Procs : LeftBody(p) => status = "IDLE"

(* C3 witness: a measure has just raised TimeOutError *)
C3_Witness ==
    \E p \in Procs : LeftBody(p) /\ op[p].name = "measure" /\ ret[p] = "TimeOutError"

(* A direct call of press_a_button has just ended *)
Pressed(p) == pc[p] = "done" /\ op[p].name = "press_a_button"

(* C4: press_a_button on a registered control that the locator has never   *)
(* located raises ButtonNotFoundError and clicks nothing; once a           *)
(* find_all_buttons run has gone through every control, press_a_button on  *)
(* any registered control returns and makes one click, at the position     *)
(* stored for that control.                                                *)
C4_PressAfterLocate ==
    \A p \in Procs :
        (Pressed(p) /\ op[p].arg \in Registered) =>
            /\ op[p].arg \notin located =>
                   (ret[p] = "ButtonNotFoundError" /\ inputs[p] = <<>>)
            /\ finds_ok =>
                   /\ ret[p] = "none"
                   /\ inputs[p] = <<Click(buttons[op[p].arg].pos)>>
                   /\ buttons[op[p].arg].pos = Layout(op[p].arg)

(* C4 witness: after a complete find_all_buttons run, the last control of  *)
(* the registry has been pressed.                                          *)
C4_Witness ==
    \E p \in Procs :
        Pressed(p) /\ op[p].arg = "sync" /\ finds_ok /\ Len(inputs[p]) = 1

(* C5: press_a_button with a name that is no key of the registry raises    *)
(* UnkonwnButtonNameError and clicks nothing, whether or not the           *)
(* registered controls are located.                                        *)
C5_UnknownControl ==
    \A p \in Procs :
        (Pressed(p) /\ op[p].arg \notin DOMAIN buttons) =>
            (ret[p] = "UnkonwnButtonNameError" /\ inputs[p] = <<>>)

(* C5 witness: an unknown name was pressed while no control is located *)
C5_Witness ==
    \E p \in Procs :
        /\ Pressed(p) /\ op[p].arg \notin DOMAIN buttons
        /\ \A b \in Registered : ~buttons[b].found

(* C6: a measure raises TimeOutError only at a poll where the time elapsed  *)
(* since the click exceeds time_out, and at the first such poll: while it  *)
(* is still polling the elapsed time is at most time_out, so with          *)
(* time_out 1.0 s and polls 0.2 s apart it raises 1.2 s after the click.   *)
C6_TimeoutAtFirstExcess ==
    \A p \in Procs :
        op[p].name = "measure" =>
            /\ pc[p] = "measure_poll" => now - curr_t[p] <= time_out
            /\ (pc[p] = "done" /\ ret[p] = "TimeOutError") =>
                   /\ now - curr_t[p] > time_out
                   /\ now - curr_t[p] - PollInterval <= time_out
                   /\ time_out = 10 => now - curr_t[p] = 12

(* C6 witness: a measure has raised TimeOutError with the cache directory  *)
(* count still at its baseline.                                            *)
C6_Witness ==
    \E p \in Procs :
        /\ LeftBody(p) /\ op[p].name = "measure" /\ ret[p] = "TimeOutError"
        /\ cnt[p] = n[p] /\ cacheCount = n[p]

(* C7: a measure or an export returns without exception only if the count  *)
(* its polling loop last read is greater than the baseline.                *)
C7_SuccessMeansIncrease ==
    \A p \in Procs :
        (LeftBody(p) /\ op[p].name \in {"measure", "export"} /\ ret[p] = "none")
            => cnt[p] > n[p]

(* The name recorded by the most recent export that entered RUNNING *)
EnteredName ==
    IF entered_at = Unset THEN <<>> ELSE _name_after_time(datetime_now(entered_at))

(* An analyze call has passed the IDLE check and has just ended *)
Analyzed(p) == LeftBody(p) /\ op[p].name = "analyze"

(* C8 as stated: analyze lists the subfolder named by the sample name of   *)
(* the most recent export that succeeded.                                  *)
C8_ReadsLastSuccessful ==
    \A p \in Procs :
        Analyzed(p) => read_dir[p] = <<"self.export_folder_path", "/">> \o last_ok_name

(* C8 amended: analyze lists the subfolder named by the sample name of the *)
(* most recent export that passed the IDLE check, whether that export      *)
(* succeeded, timed out or was aborted (the export folder itself if no     *)
(* export has entered RUNNING).                                            *)
C8_ReadsLastEntered ==
    \A p \in Procs :
        Analyzed(p) => read_dir[p] = <<"self.export_folder_path", "/">> \o EnteredName

(* C8 witness: analyze ran after an export that entered RUNNING and did    *)
(* not succeed.                                                            *)
C8_Witness ==
    \E p \in Procs :
        Analyzed(p) /\ entered_at # Unset /\ last_ok_name # sample_name

(* The caller's export ended with a failed press *)
PressFailed(p) ==
    /\ pc[p] = "done" /\ op[p].name = "export"
    /\ ret[p] \in {"ButtonNotFoundError", "UnkonwnButtonNameError"}

(* C9: an export never goes on past a control whose press fails: the call  *)
(* ends with the press's exception at that step, having injected exactly   *)
(* the inputs of the steps before it and without entering the polling      *)
(* loop.                                                                   *)
C9_PressFailureAborts ==
    \A p \in Procs :
        /\ (op[p].name = "export" /\ InBody(p)) =>
               \A j \in 1..step[p] :
                   ExportSteps[j].act = "click" => buttons[ExportSteps[j].arg].found
        /\ PressFailed(p) =>
               /\ ExportSteps[step[p]].act = "click"
               /\ ~buttons[ExportSteps[step[p]].arg].found
               /\ Len(inputs[p]) = step[p] - 1
               /\ \A j \in 1..Len(inputs[p]) : inputs[p][j][1] = ExportSteps[j].act
               /\ curr_t[p] = Unset /\ cnt[p] = Unset

(* C9 witness: an export failed at the press of the delete control after   *)
(* the eight interactions before it.                                       *)
C9_Witness ==
    \E p \in Procs :
        PressFailed(p) /\ ExportSteps[step[p]].arg = "delete" /\ Len(inputs[p]) = 8

IsDigit(c) == c \in {"0", "1", "2", "3", "4", "5", "6", "7", "8", "9"}

(* YYYY_MM_DD_HH_MM_SS *)
WellFormed(nm) ==
    /\ Len(nm) = 19
    /\ \A i \in 1..19 : IF i \in {5, 8, 11, 14, 17} THEN nm[i] = "_" ELSE IsDigit(nm[i])

(* C10: the names of two clock readings have the form YYYY_MM_DD_HH_MM_SS  *)
(* and are equal exactly when the readings fall in the same whole second;  *)
(* readings one second apart get distinct names.                           *)
C10_NameInjective ==
    probe.names # <<>> =>
        /\ WellFormed(probe.names[1]) /\ WellFormed(probe.names[2])
        /\ (probe.names[1] = probe.names[2])
               <=> (probe.readings[1].sec = probe.readings[2].sec)

(* C10 witness: the names of two readings one second apart, on either side *)
(* of midnight of a leap day, have been computed.                          *)
C10_Witness ==
    /\ probe.names # <<>>
    /\ probe.readings[1].sec = 8824 * 86400 + 86399
    /\ probe.readings[2].sec = probe.readings[1].sec + 1

(* The search has been applied and its loop recorded no candidate: the     *)
(* capture resized at the first, largest scale is smaller than the         *)
(* template.                                                               *)
NoCandidate ==
    /\ probe.result # None
    /\ \/ resized(probe.gray, Scales[1]).h < probe.template.h
       \/ resized(probe.gray, Scales[1]).w < probe.template.w

(* C11: when no scale of the search yields a candidate, locate fails with  *)
(* an explicit NotFound or InvalidTemplate error.                          *)
C11_NoCandidateExplicit ==
    NoCandidate => probe.result.exc \in {"NotFound", "InvalidTemplate"}

WorkflowHandlers == {"on_measure", "on_export", "on_analyze"}

(* The handler through which caller p's call came ("" for a direct call) *)
HandlerOf(p) == IF op[p].name \in WorkflowHandlers THEN op[p].name ELSE op[p].arg

(* A workflow handler called by p has just ended *)
Handled(p) == pc[p] = "done" /\ HandlerOf(p) \in WorkflowHandlers

(* C12: when a handler (on_measure, on_export, on_analyze) ends it has     *)
(* returned something (no exception leaves it); what it returned starts    *)
(* with 'success' exactly when the workflow was called and returned        *)
(* without raising, and otherwise with a non-empty message other than      *)
(* 'success'; a handler entered while status is RUNNING ends at once with  *)
(* the busy message, without calling the workflow: status stays RUNNING,   *)
(* no input is injected and sample_name is not touched.                    *)
C12_HandlerReplies ==
    [][\A p \in Procs :
         /\ Handled(p)' =>
              /\ reply'[p] # None
              /\ (reply'[p][1] = "success")
                     <=> (op'[p].name \in Workflows /\ ret'[p] = "none")
              /\ reply'[p][1] # ""
              /\ ret'[p] # "none" => reply'[p][1] = str(ret'[p])
         /\ (status = "RUNNING" /\ pc[p] = "idle" /\ pc'[p] # "idle"
               /\ HandlerOf(p)' \in WorkflowHandlers)
            => /\ pc'[p] = "done"
               /\ reply'[p] = <<BusyMessage>>
               /\ op'[p].name \notin Workflows
               /\ status' = "RUNNING"
               /\ inputs'[p] = <<>>
               /\ sample_name' = sample_name]_vars

(* C12 witness: on_measure has returned the message of the TimeOutError    *)
(* its measure raised.                                                     *)
C12_Witness ==
    \E p \in Procs :
        /\ Handled(p) /\ op[p] = [name |-> "measure", arg |-> "on_measure"]
        /\ ret[p] = "TimeOutError" /\ reply[p] = <<"The operation takes too long.">>

(* C13: the time_out given to the constructor of Z300SocketIOServer is the *)
(* time_out the polling loops compare the elapsed time against, at         *)
(* construction and ever after.                                            *)
C13_TimeoutAsGiven ==
    given.class = "Z300SocketIOServer" => time_out = given.time_out

(* C14: every control for which the constructor of Z300SocketIOServer was  *)
(* given an image path holds that path, the delete control included.       *)
C14_ImagePathsAsGiven ==
    given.class = "Z300SocketIOServer" =>
        \A b \in DOMAIN given.img : buttons[b].img_path = given.img[b]

(* C15: analyze called when the export subfolder holds no file matching    *)
(* the spectrum naming convention (none ending in 1.csv) raises the        *)
(* classified error SpectrumFileNotFound and leaves status IDLE.           *)
C15_NoSpectrumClassified ==
    \A p \in Procs :
        (Analyzed(p) /\ listed[p] = "no_match") =>
            (ret[p] = "SpectrumFileNotFound" /\ status = "IDLE")

IsClick(ev) == ev[1] = "click"

(* The clicks among the inputs caller p's call has injected, in order *)
Clicks(p) == SelectSeq(inputs[p], IsClick)

ExportOrder ==
    <<"sample_name", "export", "separate_spectrum", "new_folder",
      "export_finish", "delete", "sync">>

(* C16: the clicks of an export are, in this order and each once, on       *)
(* sample_name, export, separate_spectrum, new_folder, export_finish,      *)
(* delete, sync (at any moment a prefix of that list); the baseline n is   *)
(* the count of the export directory read when the call enters, before     *)
(* the first click; and the polling loop starts (curr_t is taken) only     *)
(* after all seven clicks and the Enter that confirms sync.                *)
C16_ExportOrder ==
    [][\A p \in Procs :
         op'[p].name = "export" =>
            /\ Len(Clicks(p)') <= Len(ExportOrder)
            /\ \A i \in 1..Len(Clicks(p)') :
                   Clicks(p)'[i] = Click(Layout(ExportOrder[i]))
            /\ (pc'[p] = "export_poll" \/ curr_t'[p] # Unset) =>
                   /\ Len(Clicks(p)') = Len(ExportOrder)
                   /\ inputs'[p][Len(inputs'[p])] = KeyPress("enter")
                   /\ inputs'[p][Len(inputs'[p]) - 1] = Click(Layout("sync"))
            /\ inputs'[p] # <<>> => n'[p] # Unset
            /\ (pc[p] = "idle" /\ ret'[p] # "DeviceRunningError") =>
                   n'[p] = exportCount]_vars

(* C16 witness: an export has made its seven clicks and is polling *)
C16_Witness ==
    \E p \in Procs :
        op[p].name = "export" /\ pc[p] = "export_poll" /\ Len(Clicks(p)) = 7

(* C17 as stated: the click on the measure control is the first input a    *)
(* measure injects, and a measure that raises ButtonNotFoundError has      *)
(* injected nothing.                                                       *)
C17_ClickIsFirstInput ==
    \A p \in Procs :
        op[p].name = "measure" =>
            /\ inputs[p] # <<>> => inputs[p][1] = Click(Layout("measure"))
            /\ (pc[p] = "done" /\ ret[p] = "ButtonNotFoundError") => inputs[p] = <<>>

(* C17 amended: a measure first presses Enter and sleeps, then records the *)
(* baseline count of the cache directory, clicks the measure control and   *)
(* only then polls: its inputs are Enter followed by at most the one       *)
(* click, the baseline is the count read in the step that clicks, and a    *)
(* measure that raises ButtonNotFoundError has injected the Enter          *)
(* keystroke and no click.                                                 *)
C17_EnterThenClick ==
    [][\A p \in Procs :
         (op'[p].name = "measure" /\ ret'[p] # "DeviceRunningError") =>
            /\ pc'[p] = "measure_sleep" =>
                   (inputs'[p] = <<KeyPress("enter")>> /\ n'[p] = Unset)
            /\ (pc'[p] = "measure_poll" \/ curr_t'[p] # Unset) =>
                   /\ inputs'[p] = <<KeyPress("enter"), Click(Layout("measure"))>>
                   /\ n'[p] # Unset
            /\ (pc'[p] = "done" /\ ret'[p] = "ButtonNotFoundError") =>
                   (inputs'[p] = <<KeyPress("enter")>> /\ n'[p] # Unset)
            /\ (pc[p] = "measure_sleep" /\ pc'[p] # "measure_sleep") =>
                   n'[p] = cacheCount]_vars

(* C17 witness: a measure has raised ButtonNotFoundError after its Enter   *)
(* keystroke.                                                              *)
C17_Witness ==
    \E p \in Procs :
        /\ op[p].name = "measure" /\ pc[p] = "done"
        /\ ret[p] = "ButtonNotFoundError" /\ inputs[p] = <<KeyPress("enter")>>

(* C18: a workflow that has set status to RUNNING sets it back to IDLE:    *)
(* each sleep of the polling loop advances the clock, so measure and       *)
(* export end, with success or TimeOutError, even when the watched         *)
(* directory never changes.                                                *)
C18_RunningLeadsToIdle == (status = "RUNNING") ~> (status = "IDLE")

(* C18 witness: an export has polled an export directory that kept its     *)
(* count, has raised TimeOutError and left status IDLE.                    *)
C18_Witness ==
    \E p \in Procs :
        /\ LeftBody(p) /\ op[p].name = "export" /\ ret[p] = "TimeOutError"
        /\ cnt[p] = n[p] /\ status = "IDLE"

(* C19: status changes only when a workflow enters its body (IDLE to       *)
(* RUNNING) and when a workflow that entered leaves it (RUNNING to IDLE);  *)
(* a call of find_all_buttons or press_a_button and a broadcast of         *)
(* update_status leave status as it is, IDLE or RUNNING.                   *)
C19_StatusFrame ==
    [][/\ status' # status =>
            \E p \in Procs :
                /\ op'[p].name \in Workflows
                /\ \/ /\ status = "IDLE" /\ status' = "RUNNING"
                      /\ pc[p] = "idle" /\ InBody(p)'
                   \/ /\ status = "RUNNING" /\ status' = "IDLE"
                      /\ InBody(p) /\ pc'[p] = "done"
       /\ \A p \in Procs :
            (pc[p] = "idle" /\ pc'[p] = "done"
               /\ op'[p].name \in {"find_all_buttons", "press_a_button"})
            => status' = status
       /\ (beat' # beat /\ now' = now) => status' = status]_vars

(* C19 witness: find_all_buttons has run while a measure is polling, the   *)
(* status broadcast has sent RUNNING, and status is RUNNING still.         *)
C19_Witness ==
    \E p, q \in Procs :
        /\ pc[p] = "measure_poll" /\ status = "RUNNING" /\ emitted = "RUNNING"
        /\ pc[q] = "done" /\ op[q].name = "find_all_buttons"

(* C20: the keys of self.buttons are the ones set at construction, and the *)
(* pos, found and img_path of a control change only in a run of            *)
(* find_all_buttons: every step of measure, export, analyze and            *)
(* press_a_button, whether it succeeds or raises, leaves self.buttons as   *)
(* it was.                                                                 *)
C20_RegistryFrame ==
    [][/\ DOMAIN buttons' = Registered
       /\ buttons' # buttons =>
            \E p \in Procs :
                pc[p] = "idle" /\ pc'[p] = "done" /\ op'[p].name = "find_all_buttons"
       /\ \A p \in Procs :
            (pc'[p] # pc[p] /\ pc'[p] # "idle"
               /\ op'[p].name \in Workflows \cup {"press_a_button"})
            => \A b \in Registered :
                   /\ buttons'[b].pos = buttons[b].pos
                   /\ buttons'[b].found = buttons[b].found]_vars

(* C20 witness: press_a_button has clicked a control that was found, and   *)
(* the control is found still.                                             *)
C20_Witness ==
    \E p \in Procs :
        /\ Pressed(p) /\ ret[p] = "none" /\ op[p].arg = "export"
        /\ buttons["export"].found /\ buttons["export"].pos = Layout("export")

----------------------------------------------------------------------------
(* The scales that the search evaluates: the loop leaves at the first      *)
(* scale at which the resized capture is smaller than the template.        *)
Evaluated(gray, template) ==
    {i \in 1..Len(Scales) :
        \A j \in 1..i : /\ resized(gray, Scales[j]).h >= template.h
                        /\ resized(gray, Scales[j]).w >= template.w}

(* C21: the winning match of the locator is the first occurrence of the    *)
(* maximum score among the evaluated scales (largest scale first): on      *)
(* equal scores the earlier match and its ratio are kept.                  *)
C21_FirstMaximumWins ==
    (probe.result # None /\ probe.found # None) =>
        LET E == Evaluated(probe.gray, probe.template)
            val == probe.gray.val
            best == CHOOSE i \in E :
                        /\ \A j \in E : val[j] <= val[i]
                        /\ \A j \in E : j < i => val[j] < val[i]
        IN  /\ probe.found[1] = val[best]
            /\ probe.found[2] = minMaxLoc(probe.gray, Scales[best]).max_loc
            /\ probe.found[3] = resized(probe.gray, Scales[best]).w

(* The search has run over a capture whose two largest scales tie at the   *)
(* greatest score, and a later scale ties with them too.                   *)
C21_Witness ==
    /\ probe.result # None
    /\ probe.found # None
    /\ {1, 2, 4} \subseteq Evaluated(probe.gray, probe.template)
    /\ probe.gray.val[1] = MaxScore
    /\ probe.gray.val[2] = MaxScore
    /\ probe.gray.val[3] = 0
    /\ probe.gray.val[4] = MaxScore
    /\ probe.found[3] = resized(probe.gray, Scales[1]).w

----------------------------------------------------------------------------
(* Caller q can make a request now *)
CanCall(q) == Quiet /\ pc[q] = "idle" /\ now <= LastCall

(* C22: while a measure or an export is in progress the server keeps       *)
(* servicing other work.  update_status is never overdue; at every sleep   *)
(* of the workflow update_status can run when it is due and a handler can  *)
(* run and return the busy message; every broadcast made while a workflow  *)
(* is in its body says RUNNING; and under weak fairness of update_status a *)
(* broadcast that is due while a workflow sleeps is made, and              *)
(* update_status is up to date again and again, also while a workflow      *)
(* polls until its timeout.                                                *)
C22_ServesWhileRunning ==
    /\ [](beat >= now)
    /\ [](\A p \in Procs : (InBody(p) /\ beat = now) => ENABLED UpdateStatus)
    /\ [](\A p, q \in Procs :
            (InBody(p) /\ CanCall(q))
                => ENABLED (OnAnalyze(q) /\ reply'[q][1] = BusyMessage))
    /\ [][((\E p \in Procs : InBody(p)) /\ beat' # beat) => emitted' = "RUNNING"]_vars
    /\ \A p \in Procs :
            (InBody(p) /\ beat = now) ~> (emitted = "RUNNING" /\ beat > now)
    /\ []<>(beat > now)

(* C22 witness: a measure has polled twice, update_status has broadcast    *)
(* RUNNING on time, and on_analyze has just returned the busy message to   *)
(* another caller.                                                         *)
C22_Witness ==
    \E p, q \in Procs :
        /\ pc[p] = "measure_poll" /\ now - curr_t[p] >= 2 * PollInterval
        /\ emitted = "RUNNING" /\ beat > now
        /\ pc[q] = "done" /\ op[q].name = "on_analyze"
        /\ reply[q][1] = BusyMessage

----------------------------------------------------------------------------
(* How often event ev occurs among the inputs seq *)
Count(seq, ev) == Cardinality({i \in 1..Len(seq) : seq[i] = ev})

(* How far the workflow of caller p has come in its straight-line code *)
Stage(p) ==
    CASE pc[p] = "measure_sleep" -> 0
      [] pc[p] = "export_sleep" -> step[p]
      [] pc[p] \in {"measure_poll", "export_poll"} -> Len(ExportSteps) + 1
      [] OTHER -> Len(ExportSteps) + 2

Polling(p) == pc[p] \in {"measure_poll", "export_poll"}

(* C23: no workflow retries anything.  A measure clicks the measure        *)
(* control at most once and an export clicks each control at most once;    *)
(* each resumption of a workflow that is not polling takes it further in   *)
(* its code, a polling workflow injects nothing more, and a call that has  *)
(* raised TimeOutError or a press failure has ended: it injects nothing in *)
(* the step that raises and only returns afterwards.                       *)
C23_NoRetries ==
    [][\A p \in Procs :
        /\ op'[p].name = "measure" =>
               /\ Count(inputs'[p], Click(Layout("measure"))) <= 1
               /\ Len(Clicks(p)') <= 1
        /\ op'[p].name = "export" =>
               \A b \in Registered : Count(inputs'[p], Click(Layout(b))) <= 1
        /\ (InBody(p) /\ ~Polling(p) /\ now' # now) => Stage(p)' > Stage(p)
        /\ (Polling(p) /\ now' # now) =>
               /\ inputs'[p] = inputs[p]
               /\ Stage(p)' >= Stage(p)
        /\ (InBody(p) /\ pc'[p] = "done" /\ ret'[p] # "none") =>
               inputs'[p] = inputs[p]
        /\ pc[p] = "done" =>
               \/ pc'[p] = "done" /\ inputs'[p] = inputs[p] /\ ret'[p] = ret[p]
               \/ pc'[p] = "idle" /\ inputs'[p] = <<>>]_vars

(* C23 witness: a measure that clicked once has ended with TimeOutError *)
C23_Witness ==
    \E p \in Procs :
        /\ op[p].name = "measure" /\ pc[p] = "done" /\ ret[p] = "TimeOutError"
        /\ Count(inputs[p], Click(Layout("measure"))) = 1

----------------------------------------------------------------------------
(* The count of the directory that the workflow of caller p watches *)
Watched(p) == IF op[p].name = "measure" THEN cacheCount ELSE exportCount

(* C24: a measure or an export raises TimeOutError only if the count of    *)
(* the watched directory equals the baseline n at the moment it is raised: *)
(* when the count has changed by the time a poll wakes up, the workflow    *)
(* returns without exception.                                              *)
C24_TimeoutOnlyAtBaseline ==
    [][\A p \in Procs :
         (Polling(p) /\ pc'[p] = "done" /\ ret'[p] = "TimeOutError")
             => Watched(p)' = n[p]]_vars

----------------------------------------------------------------------------
(* C25: while status is RUNNING the pos and the found flag of every        *)
(* control stay as they are: a find_buttons request that arrives while a   *)
(* workflow sleeps does not change what the remaining presses of that      *)
(* workflow will click.                                                    *)
C25_RegistryStableWhileRunning ==
    [][status = "RUNNING" =>
          \A b \in Registered :
              /\ buttons'[b].pos = buttons[b].pos
              /\ buttons'[b].found = buttons[b].found]_vars

----------------------------------------------------------------------------
(* The controls whose template the locator cannot read, by their place in  *)
(* the registry                                                            *)
Failing(bs) ==
    {i \in 1..Len(ButtonNames) :
        locate_button_multi_scale(bs[ButtonNames[i]].img_path).exc # "none"}

(* Caller p has just run find_all_buttons *)
FoundAll(p) ==
    pc[p] = "idle" /\ pc'[p] = "done" /\ op'[p].name = "find_all_buttons"

(* C26: every control whose found flag is set has a position; and a run of *)
(* find_all_buttons that fails part-way leaves the controls before the     *)
(* failing one found at their new positions, and the failing control and   *)
(* all later ones with the pos and found they had.                         *)
C26_FoundHasPosition ==
    /\ [](\A b \in Registered : buttons[b].found => buttons[b].pos # None)
    /\ [][\A p \in Procs :
            (FoundAll(p) /\ Failing(buttons) # {}) =>
                LET k == CHOOSE i \in Failing(buttons) :
                             \A j \in Failing(buttons) : i <= j
                IN  /\ ret'[p] # "none"
                    /\ \A i \in 1..Len(ButtonNames) :
                           LET b == ButtonNames[i]
                           IN  IF i < k
                               THEN /\ buttons'[b].found
                                    /\ buttons'[b].pos =
                                          locate_button_multi_scale(buttons[b].img_path).pos
                               ELSE /\ buttons'[b].found = buttons[b].found
                                    /\ buttons'[b].pos = buttons[b].pos]_vars

(* C26 witness: a run of find_all_buttons has failed at a control that is  *)
(* neither the first nor the last; the first control is found at its       *)
(* position and the last is not found.                                     *)
C26_Witness ==
    \E p \in Procs :
        /\ pc[p] = "done" /\ op[p].name = "find_all_buttons" /\ ret[p] # "none"
        /\ buttons[ButtonNames[1]].found
        /\ buttons[ButtonNames[1]].pos = Layout(ButtonNames[1])
        /\ ~buttons[ButtonNames[Len(ButtonNames)]].found
        /\ buttons[ButtonNames[Len(ButtonNames)]].pos = None

----------------------------------------------------------------------------
(* Caller p has just made a call of method name that passed the IDLE check *)
Entered(p, name) ==
    /\ pc[p] = "idle" /\ pc'[p] # "idle"
    /\ op'[p].name = name
    /\ status = "IDLE"
    /\ ret'[p] # "DeviceRunningError"

(* C27: an export rejected with DeviceRunningError leaves self.sample_name *)
(* as it was; self.sample_name changes only in the step in which an export *)
(* passes the IDLE check, to the name of that moment; no step of a measure *)
(* or of an analyze changes it.                                            *)
C27_SampleNameFrame ==
    [][/\ \A p \in Procs :
            (pc[p] = "idle" /\ op'[p].name = "export"
               /\ ret'[p] = "DeviceRunningError") => sample_name' = sample_name
       /\ sample_name' # sample_name =>
            \E p \in Procs :
                /\ Entered(p, "export")
                /\ sample_name' = _name_after_time(datetime_now(WallClock(now)))
       /\ \A p \in Procs :
            (op'[p].name \in {"measure", "analyze"}
               /\ (pc'[p] # pc[p] \/ now' # now))
            => sample_name' = sample_name]_vars

(* C27 witness: an export has been rejected with DeviceRunningError at a   *)
(* second other than the one the stored sample name was taken at.          *)
C27_Witness ==
    \E p \in Procs :
        /\ pc[p] = "done" /\ op[p].name = "export" /\ ret[p] = "DeviceRunningError"
        /\ sample_name # <<>>
        /\ sample_name # _name_after_time(datetime_now(WallClock(now)))
====
